---- MODULE Spec2Model ----
(***************************************************************************)
(* Bid collection pipeline of the BidIntelligence scripts:                 *)
(* fetch -> normalize (get_text) -> filter -> dedupe -> demo fallback ->   *)
(* save.  One run of one script is one behaviour.                          *)
(*                                                                         *)
(* Text is modelled as a sequence of characters (one-token strings), so    *)
(* that strip(), the substring test and string concatenation are computed  *)
(* and not assumed.  Korean words are romanised syllable by syllable.      *)
(***************************************************************************)
EXTENDS Integers, Sequences, FiniteSets

VARIABLES script, pc, api_key, idx, response, bids, all_bids, df,
          duplicate_count, log, db, sink, demo_used, elem, text

vars == <<script, pc, api_key, idx, response, bids, all_bids, df,
          duplicate_count, log, db, sink, demo_used, elem, text>>

(***************************************************************************)
(* Bounds of the model.                                                    *)
(***************************************************************************)
\* most raw items received in one run, all categories together
MaxItems == 2
\* longest element text drawn for get_text alone
MaxTextLen == 3
\* most raw items of the one batch given to an item loop alone
MaxBatch == 3
\* most insert_bid calls made on the store alone
MaxInserts == 3
\* most records of the aggregate given to the dedupe step alone
MaxRows == 3

(***************************************************************************)
(* Text.                                                                   *)
(***************************************************************************)
SP == " "
NL == "\n"
\* the characters str.strip() removes
Whitespace == {SP, NL}
\* '수의계약'
NEGOTIATED == <<"su", "ui", "gye", "yak">>
\* '수의계약(일부)'
NEGOTIATED_PART == <<"su", "ui", "gye", "yak", "(", "il", "bu", ")">>
\* '일반경쟁입찰'
GENERAL == <<"il", "ban", "gyeong", "jaeng", "ip", "chal">>
\* '제한경쟁입찰'
LIMITED == <<"je", "han", "gyeong", "jaeng", "ip", "chal">>
\* '정보없음'
PLACEHOLDER == <<"jeong", "bo", "eob", "eum">>
\* 'https://www.g2b.go.kr/pt/menu/selectSubFrame.do?bidNtceNo='
DETAIL_URL == <<"https://www.g2b.go.kr", "/pt/menu/selectSubFrame.do?", "bidNtceNo=">>
\* 'https://www.g2b.go.kr/'
HOME_URL == <<"https://www.g2b.go.kr", "/">>
\* G2B_BASE_URL + '/pt/menu/selectSubFrame.do?framesrc=/pt/menu/frameTgong.do&bidPbancNo='
FRAME_URL == <<"https://www.g2b.go.kr", "/pt/menu/selectSubFrame.do?", "framesrc=/pt/menu/frameTgong.do&", "bidPbancNo=">>

RECURSIVE lstrip(_)
\* str.lstrip(): drop the leading whitespace
lstrip(s) == IF s # <<>> /\ Head(s) \in Whitespace THEN lstrip(Tail(s)) ELSE s

RECURSIVE rstrip(_)
\* str.rstrip(): drop the trailing whitespace
rstrip(s) ==
    IF s # <<>> /\ s[Len(s)] \in Whitespace THEN rstrip(SubSeq(s, 1, Len(s) - 1)) ELSE s

\* str.strip()
strip(s) == rstrip(lstrip(s))

\* Python's  sub in s  on strings
Contains(sub, s) ==
    \E i \in 1..(Len(s) - Len(sub) + 1) : SubSeq(s, i, i + Len(sub) - 1) = sub

\* an XML child element with its text (text <<>> is Python's None or '')
Elem(t) == [present |-> TRUE, text |-> t]
\* item.find(tag) found nothing
NoElem == [present |-> FALSE, text |-> <<>>]

\* get_text(tag_name): elem.text.strip() if elem is not None and elem.text
\* else '정보없음'
get_text(e) ==
    IF e.present /\ e.text # <<>> THEN strip(e.text) ELSE PLACEHOLDER

(***************************************************************************)
(* The scripts and their configuration.                                    *)
(***************************************************************************)
\* G2B_FINAL_SOLUTION.py, g2b_official_api.py, replit_g2b_solution.py,
\* g2b_correct_api.py, g2b_db_solution.py, main.py (browser automation)
Scripts == {"final", "official", "replit", "correct", "db", "browser"}

\* '물품', '용역', '공사', '외자'
category_names ==
    [goods |-> "mulpum", service |-> "yongyeok", construction |-> "gongsa",
     foreign |-> "oeja"]

\* the category tags in processing order: the list  categories  of
\* collect_all_bids, the keys of API_ENDPOINTS, the values of API_SOURCES
Categories(s) ==
    CASE s \in {"final", "official", "replit"} ->
            <<category_names.goods, category_names.service,
              category_names.construction, category_names.foreign>>
      [] s \in {"correct", "db"} -> <<"mulpum", "yongyeok", "gongsa">>
      [] OTHER -> <<"browser">>

\* the scripts that aggregate with drop_duplicates(subset=['공고번호'])
Dedupes(s) == s \in {"final", "official", "replit", "correct"}

\* the scripts whose batch step keeps and prints excluded_count
ReportsExcluded(s) == s \in {"final", "official", "replit", "browser"}

\* the value of '수집방법' / collection_method of a collected record
CollectionMethod(s) ==
    CASE s = "final" -> "gonggong data API"
      [] s = "official" -> "Official API"
      [] s = "replit" -> "Official API (Replit Optimized)"
      [] s = "db" -> "narajangteo gongsik API"
      [] OTHER -> "none"

\* the record has no '입찰분류' yet
NoCategory == "none"

(***************************************************************************)
(* Raw input: items of an API response, rows of the scraped table.         *)
(***************************************************************************)
TextA == <<"A">>
TextB == <<"B">>
Title1 == <<"first">>
Title2 == <<"second">>

Item(no, method, name) ==
    [bidNtceNo |-> no, bidNtceNm |-> name, cntrctCnclsMthdNm |-> method,
     cntrctMthd |-> NoElem, raises |-> FALSE]

\* <item> elements of a response.  raises: an exception is raised while the
\* item is processed (the branch  except Exception  of the item loop).
RawItems ==
    { Item(Elem(no), Elem(GENERAL), Elem(Title1)) : no \in {TextA, TextB} }
    \cup { Item(Elem(<<SP, "A", NL>>), NoElem, Elem(Title2)),
           Item(Elem(TextA), Elem(NEGOTIATED_PART), Elem(Title1)),
           Item(Elem(TextB), Elem(NEGOTIATED), NoElem) }
    \cup { Item(no, Elem(GENERAL), Elem(Title1)) :
        no \in {NoElem, Elem(<<>>), Elem(<<SP>>)} }
    \cup { [Item(Elem(TextB), NoElem, Elem(Title1))
              EXCEPT !.cntrctMthd = Elem(NEGOTIATED)],
           [Item(Elem(TextA), Elem(GENERAL), Elem(Title1))
              EXCEPT !.raises = TRUE] }

Row(c) == [cells |-> c, raises |-> FALSE]

\* <tr> rows of the result table: the texts of their <td> cells
RawRows ==
    { Row(<<>>),
      Row(<<TextA, Title1, <<"x">>>>),
      Row(<<TextA, Title1, <<"x">>, <<"y">>, GENERAL>>),
      Row(<<TextB, Title2, <<"x">>, <<"y">>, <<SP>> \o NEGOTIATED>>),
      Row(<<<<SP>>, Title1, <<"x">>, <<"y">>, LIMITED, <<"2025">>>>),
      [Row(<<TextA, Title1, <<"x">>, <<"y">>, GENERAL>>)
          EXCEPT !.raises = TRUE] }

\* what the source of a script can deliver as one item
InputItems(s) == IF s = "browser" THEN RawRows ELSE RawItems

\* all sequences over S of length at most n
SeqUpTo(S, n) == UNION { [1..k -> S] : k \in 0..n }

(***************************************************************************)
(* Normalizer and filter: the item loop of each script.                    *)
(***************************************************************************)
\* main.py:  if len(cells) < 5: continue
MinCells == 5

\* the dictionary  bid_info / bid_data  built from one <item>
bid_info(s, cat, item) ==
    LET contract_method == get_text(item.cntrctCnclsMthdNm)
        bid_number == get_text(item.bidNtceNo)
    IN  [bid_number |-> bid_number,
         title |-> get_text(item.bidNtceNm),
         contract_method |-> contract_method,
         link_url |-> DETAIL_URL \o bid_number,
         category |-> cat,
         collection_method |-> CollectionMethod(s)]

\* the dictionary  bid_info  built from one table row (main.py);
\* cell_texts = [cell.text.strip() for cell in cells]
row_info(row) ==
    LET cell_texts == [i \in DOMAIN row.cells |-> strip(row.cells[i])]
    IN  [bid_number |-> cell_texts[1],
         title |-> cell_texts[2],
         contract_method |-> cell_texts[5],
         link_url |-> FRAME_URL \o cell_texts[1],
         category |-> NoCategory,
         collection_method |-> "none"]

\* the filter as an exact comparison: contract_method == '수의계약'
IsNegotiatedExact(method) == method = NEGOTIATED

\* '수의계약' in contract_method
IsNegotiated(method) == Contains(NEGOTIATED, method)

\* what the body of the item loop does with one item:
\* "error" (except branch), "skipped" (short row), "excluded" or "kept"
ItemFate(s, item) ==
    IF item.raises THEN "error"
    ELSE IF s = "browser"
    THEN IF Len(item.cells) < MinCells THEN "skipped"
         ELSE IF IsNegotiated(row_info(item).contract_method)
              THEN "excluded" ELSE "kept"
    ELSE IF IsNegotiated(get_text(item.cntrctCnclsMthdNm))
         THEN "excluded" ELSE "kept"

\* the record appended for a kept item
ItemRecord(s, cat, item) ==
    IF s = "browser" THEN row_info(item) ELSE bid_info(s, cat, item)

\* the loop with an excluded_count that is never incremented
item_loop_uncounted(s, cat, items) ==
    LET Kept(i) == ItemFate(s, items[i]) = "kept"
        idxs == { i \in DOMAIN items : Kept(i) }
        F[k \in 0..Len(items)] ==
            IF k = 0 THEN <<>>
            ELSE IF k \in idxs THEN Append(F[k - 1], ItemRecord(s, cat, items[k]))
                 ELSE F[k - 1]
    IN  [bid_data |-> F[Len(items)], excluded_count |-> 0,
         errors |-> Cardinality({ i \in DOMAIN items :
                                    ItemFate(s, items[i]) = "error" })]

\* the loop that gives up the batch at the first item that raises
item_loop_abort(s, cat, items) ==
    IF \E i \in DOMAIN items : ItemFate(s, items[i]) = "error"
    THEN [bid_data |-> <<>>, excluded_count |-> 0, errors |-> 1]
    ELSE item_loop_uncounted(s, cat, items)

\* for item in items: try ... except Exception: continue
\* bid_data: the records appended, in order; excluded_count: the counter the
\* loop increments (0 in the scripts that have none); errors: the number of
\* item-error messages printed
item_loop(s, cat, items) ==
    LET F[k \in 0..Len(items)] ==
            IF k = 0
            THEN [bid_data |-> <<>>, excluded_count |-> 0, errors |-> 0]
            ELSE LET fate == ItemFate(s, items[k])
                     acc == F[k - 1]
                 IN  CASE fate = "error" ->
                            [acc EXCEPT !.errors = @ + 1]
                       [] fate = "skipped" -> acc
                       [] fate = "excluded" ->
                            IF ReportsExcluded(s)
                            THEN [acc EXCEPT !.excluded_count = @ + 1]
                            ELSE acc
                       [] OTHER ->
                            [acc EXCEPT !.bid_data =
                                Append(@, ItemRecord(s, cat, items[k]))]
    IN  F[Len(items)]

(***************************************************************************)
(* Source adapter: one response per request.                               *)
(***************************************************************************)
\* the request raised RequestException / answered with a status other than
\* 200 / answered with a body that is no XML: no item can be read
TransportFail == {"network", "http", "malformed"}

\* the browser could not be started, no result table was found, or the
\* scraping raised
BrowserFail == {"nobrowser"}

\* "ok": status 200, XML, resultCode '00' or none, totalCount an integer or
\* none; "declared": resultCode other than '00'
ApiOutcomes == {"ok", "declared"} \cup TransportFail

\* an adapter that sends a second request in every script
ResponsesRetrying(s, room) ==
    { r \in [outcome : IF s = "browser" THEN {"ok"} \cup BrowserFail
                       ELSE ApiOutcomes,
             requests : {1, 2},
             items : SeqUpTo(InputItems(s), room)] :
        r.outcome \in TransportFail \cup BrowserFail => r.items = <<>> }

\* the responses the source can give when  room  more items may be received.
\* outcome: that of the request whose response is used; requests: the number
\* of requests sent for the category.  call_g2b_api_improved sends a second
\* request (next API key) when the first fails in transport; every other
\* script sends one request.
Responses(s, room) ==
    { r \in [outcome : IF s = "browser" THEN {"ok"} \cup BrowserFail
                       ELSE ApiOutcomes,
             requests : IF s = "replit" THEN {1, 2} ELSE {1},
             items : SeqUpTo(InputItems(s), room)] :
        /\ r.outcome \in TransportFail \cup BrowserFail => r.items = <<>>
        /\ s = "replit" /\ r.outcome \in TransportFail => r.requests = 2 }

\* the outcome of the request whose response is used
Outcome(resp) == resp.outcome

\* before the first request of a run
NoResponse == [outcome |-> "none", requests |-> 0, items |-> <<>>]

\* a script that reads the items of a response that declares an error
SkipsBatchTransportOnly(s) ==
    IF s = "browser" THEN BrowserFail ELSE TransportFail

\* the outcomes for which the script never reaches its item loop
SkipsBatch(s) ==
    IF s = "browser" THEN BrowserFail ELSE TransportFail \cup {"declared"}

\* collect_bids_by_category with call_g2b_api and parse_xml_response
\* (call_g2b_api_correct and parse_bid_data; the body of the category loop
\* of collect_from_g2b_api; collect_bids_with_browser).
\* failed: the adapter call failed or the response was rejected as a whole
collect_bids_by_category(s, cat, resp) ==
    IF Outcome(resp) \in SkipsBatch(s)
    THEN [bid_data |-> <<>>, excluded_count |-> 0, errors |-> 0, failed |-> TRUE]
    ELSE LET r == item_loop(s, cat, resp.items)
         IN  [bid_data |-> r.bid_data, excluded_count |-> r.excluded_count,
              errors |-> r.errors, failed |-> FALSE]

\* the dictionary  bid_info  of method_1_public_api (g2b_complete_solution):
\* the contract method is read from <cntrctMthd>
public_api_info(item) ==
    LET bid_number == get_text(item.bidNtceNo)
    IN  [bid_number |-> bid_number,
         title |-> get_text(item.bidNtceNm),
         contract_method |-> get_text(item.cntrctMthd),
         link_url |-> DETAIL_URL \o bid_number,
         category |-> NoCategory,
         collection_method |-> "Public API"]

\* method_1_public_api once the response is read: for item in items without
\* a handler of its own.  An exception raised by an item reaches the handler
\* of the function, which returns None: the records appended so far are lost.
method_1_public_api(items) ==
    LET F[k \in 0..Len(items)] ==
            IF k = 0
            THEN [bid_data |-> <<>>, excluded_count |-> 0, errors |-> 0,
                  failed |-> FALSE]
            ELSE LET acc == F[k - 1]
                     item == items[k]
                 IN  IF acc.failed THEN acc
                     ELSE IF item.raises
                     THEN [bid_data |-> <<>>, excluded_count |-> 0,
                           errors |-> 1, failed |-> TRUE]
                     ELSE IF IsNegotiated(get_text(item.cntrctMthd))
                     THEN [acc EXCEPT !.excluded_count = @ + 1]
                     ELSE [acc EXCEPT !.bid_data =
                              Append(@, public_api_info(item))]
    IN  F[Len(items)]

\* collect_bids_via_api of g2b_api_version.py once the response is read:
\* for item in items: try ... except Exception: continue, the contract
\* method read from <cntrctMthd>; the record has no '수집방법'
collect_bids_via_api(items) ==
    LET F[k \in 0..Len(items)] ==
            IF k = 0
            THEN [bid_data |-> <<>>, excluded_count |-> 0, errors |-> 0,
                  failed |-> FALSE]
            ELSE LET acc == F[k - 1]
                     item == items[k]
                 IN  IF item.raises
                     THEN [acc EXCEPT !.errors = @ + 1]
                     ELSE IF IsNegotiated(get_text(item.cntrctMthd))
                     THEN [acc EXCEPT !.excluded_count = @ + 1]
                     ELSE [acc EXCEPT !.bid_data =
                              Append(@, [public_api_info(item) EXCEPT
                                           !.collection_method = "none"])]
    IN  F[Len(items)]

(***************************************************************************)
(* Deduplicator, durable store, demo data.                                 *)
(***************************************************************************)
\* a dedupe step that removes nothing
drop_duplicates_none(rows) == rows

RECURSIVE drop_duplicates_keep_last(_)
\* df.drop_duplicates(subset=['공고번호'], keep='last')
drop_duplicates_keep_last(rows) ==
    IF rows = <<>> THEN <<>>
    ELSE LET rest == drop_duplicates_keep_last(Tail(rows))
         IN  IF \E i \in DOMAIN rest : rest[i].bid_number = Head(rows).bid_number
             THEN rest ELSE <<Head(rows)>> \o rest

RECURSIVE drop_duplicates_once(_)
\* a dedupe step that removes one duplicate in each pass: the last record
\* whose announcement number occurs before it
drop_duplicates_once(rows) ==
    IF rows = <<>> THEN <<>>
    ELSE LET n == Len(rows)
             front == SubSeq(rows, 1, n - 1)
         IN  IF \E i \in DOMAIN front :
                    front[i].bid_number = rows[n].bid_number
             THEN front
             ELSE Append(drop_duplicates_once(front), rows[n])

RECURSIVE drop_duplicates_real(_)
\* a dedupe step that treats a missing announcement number as no key at all:
\* records whose number is the placeholder are never duplicates
drop_duplicates_real(rows) ==
    IF rows = <<>> THEN <<>>
    ELSE LET n == Len(rows)
             front == SubSeq(rows, 1, n - 1)
         IN  IF /\ rows[n].bid_number # PLACEHOLDER
                /\ \E i \in DOMAIN front :
                      front[i].bid_number = rows[n].bid_number
             THEN drop_duplicates_real(front)
             ELSE Append(drop_duplicates_real(front), rows[n])

RECURSIVE drop_duplicates(_)
\* df.drop_duplicates(subset=['공고번호'], keep='first')
drop_duplicates(rows) ==
    IF rows = <<>> THEN <<>>
    ELSE LET n == Len(rows)
             first == drop_duplicates(SubSeq(rows, 1, n - 1))
         IN  IF \E i \in DOMAIN first : first[i].bid_number = rows[n].bid_number
             THEN first ELSE Append(first, rows[n])

\* a row of table bids: the columns of the record and created_at, which
\* defaults to CURRENT_TIMESTAMP (the second of the insert).  The rows of
\* the table are kept in the order of their id (AUTOINCREMENT).
StoredRow(bid, now) ==
    [bid_number |-> bid.bid_number, title |-> bid.title,
     contract_method |-> bid.contract_method, link_url |-> bid.link_url,
     category |-> bid.category, collection_method |-> bid.collection_method,
     created_at |-> now]

\* the second of an insert: that of the newest row, or  tick  seconds later
\* (seconds are counted from the first insert)
Now(rows, tick) ==
    LET F[k \in 0..Len(rows)] ==
            IF k = 0 THEN 0
            ELSE IF rows[k].created_at > F[k - 1]
                 THEN rows[k].created_at ELSE F[k - 1]
    IN  IF rows = <<>> THEN 0 ELSE F[Len(rows)] + tick

\* INSERT OR IGNORE INTO bids: the row that holds the bid_number stays
insert_bid_ignore(rows, bid, now) ==
    IF \E i \in DOMAIN rows : rows[i].bid_number = bid.bid_number
    THEN rows ELSE Append(rows, StoredRow(bid, now))

\* INSERT OR REPLACE INTO bids: bid_number is UNIQUE, the row that holds it
\* is deleted and the new row is added
insert_bid(rows, bid, now) ==
    LET Other(r) == r.bid_number # bid.bid_number
    IN  Append(SelectSeq(rows, Other), StoredRow(bid, now))

RECURSIVE insert_all(_, _, _)
\* insert_bid for each record, in order
insert_all(rows, new, now) ==
    IF new = <<>> THEN rows
    ELSE insert_all(insert_bid(rows, Head(new), now), Tail(new), now)

\* the columns export_to_csv selects: created_at is not among them
ExportedRow(r) ==
    [bid_number |-> r.bid_number, title |-> r.title,
     contract_method |-> r.contract_method, link_url |-> r.link_url,
     category |-> r.category, collection_method |-> r.collection_method]

RECURSIVE OrderByCreatedAtDesc(_, _)
\* the rows of second t, then those of the seconds before it; the rows of
\* one second come in the order of their id
OrderByCreatedAtDesc(rows, t) ==
    IF t < 0 THEN <<>>
    ELSE LET At(r) == r.created_at = t
         IN  SelectSeq(rows, At) \o OrderByCreatedAtDesc(rows, t - 1)

\* export_to_csv: SELECT ... FROM bids ORDER BY created_at DESC
export_to_csv(rows) ==
    LET sorted == OrderByCreatedAtDesc(rows, Now(rows, 0))
    IN  [i \in DOMAIN sorted |-> ExportedRow(sorted[i])]

DemoBid(no, name, method, link, cat, how) ==
    [bid_number |-> no, title |-> name, contract_method |-> method,
     link_url |-> link, category |-> cat, collection_method |-> how]

\* create_demo_data() / collect_demo_data(): the fixed sample rows
create_demo_data(s) ==
    CASE s = "final" ->
            << DemoBid(<<"DEMO-", "2025-", "0001">>, <<"[demo]", "1">>, GENERAL,
                       HOME_URL, "yongyeok", "demo data"),
               DemoBid(<<"DEMO-", "2025-", "0002">>, <<"[demo]", "2">>, LIMITED,
                       HOME_URL, "yongyeok", "demo data") >>
      [] s = "replit" ->
            << DemoBid(<<"20250704-", "REPLIT-", "001">>, <<"[Replit]", "1">>,
                       GENERAL,
                       DETAIL_URL \o <<"20250704-", "REPLIT-", "001">>,
                       "yongyeok", "Demo Data (Replit)"),
               DemoBid(<<"20250704-", "REPLIT-", "002">>, <<"[Replit]", "2">>,
                       LIMITED,
                       DETAIL_URL \o <<"20250704-", "REPLIT-", "002">>,
                       "mulpum", "Demo Data (Replit)") >>
      [] s = "correct" ->
            << DemoBid(<<"20250704-", "DEMO-", "001">>, <<"[demo]", "1">>,
                       GENERAL, HOME_URL, "yongyeok", "none"),
               DemoBid(<<"20250704-", "DEMO-", "002">>, <<"[demo]", "2">>,
                       LIMITED, HOME_URL, "mulpum", "none") >>
      [] s = "db" ->
            << DemoBid(<<"DEMO-", "today", "-001">>, <<"[demo]", "1">>, GENERAL,
                       HOME_URL, "yongyeok", "demo data"),
               DemoBid(<<"DEMO-", "today", "-002">>, <<"[demo]", "2">>, LIMITED,
                       HOME_URL, "gongsa", "demo data") >>
      [] s = "browser" ->
            << DemoBid(<<"20250704-", "00001">>, <<"1">>, GENERAL,
                       FRAME_URL \o <<"20250704-", "00001">>, NoCategory, "none"),
               DemoBid(<<"20250704-", "00002">>, <<"2">>, LIMITED,
                       FRAME_URL \o <<"20250704-", "00002">>, NoCategory, "none") >>
      [] OTHER -> <<>>

(***************************************************************************)
(* One run of a script.                                                    *)
(*   pc: "start" -> "collect" (once per category) -> "aggregate" ->        *)
(*       "fallback" -> "save" -> "done"                                    *)
(*   log: one entry per category attempted, what the run printed about it  *)
(*   response, bids: the response and the batch result of the category     *)
(*       attempted last                                                    *)
(***************************************************************************)
\* the number of raw items received so far in this run
Received == LET F[k \in 0..Len(log)] ==
                    IF k = 0 THEN 0 ELSE F[k - 1] + log[k].received
            IN  F[Len(log)]

\* total_collected of collect_from_g2b_api: the records of all categories
TotalCollected == LET F[k \in 0..Len(log)] ==
                          IF k = 0 THEN 0 ELSE F[k - 1] + log[k].kept
                  IN  F[Len(log)]

Init ==
    /\ script \in Scripts
    /\ pc = "start"
    /\ api_key \in (IF script = "final" THEN BOOLEAN ELSE {TRUE})
    /\ idx = 1
    /\ response = NoResponse
    /\ bids = <<>>
    /\ all_bids = <<>>
    /\ df = <<>>
    /\ duplicate_count = 0
    /\ log = <<>>
    /\ db = <<>>
    /\ sink = <<>>
    /\ demo_used = FALSE
    /\ elem = NoElem
    /\ text = <<>>

\* main(): get_api_key(); without a key G2B_FINAL_SOLUTION goes straight to
\* create_demo_data()
Main ==
    /\ pc = "start"
    /\ IF api_key
       THEN /\ pc' = "collect"
            /\ UNCHANGED <<df, demo_used>>
       ELSE /\ df' = create_demo_data(script)
            /\ demo_used' = TRUE
            /\ pc' = "save"
    /\ UNCHANGED <<script, api_key, idx, response, bids, all_bids,
                   duplicate_count, log, db, sink, elem, text>>

\* the category loop that stops at the first category that fails
NextPcAbort(failed) ==
    IF failed \/ idx = Len(Categories(script)) THEN "aggregate" ELSE "collect"

\* for category in categories: after the last one the loop ends
NextPc(failed) ==
    IF idx = Len(Categories(script)) THEN "aggregate" ELSE "collect"

\* the seconds that pass between two steps of a run that writes the store
Ticks(s) == IF s = "db" THEN {0, 1} ELSE {0}

\* one iteration of the category loop: request, parse, filter, tag, extend
\* (g2b_db_solution: insert each record into the store,  tick  seconds
\* after the newest row)
\* a category loop that leaves the records as the batch step returned them
tag_bids_none(s, cat, records) == records

\* for bid in bids: bid['입찰분류'] = category_names[category]; the batch
\* step of g2b_correct_api and g2b_db_solution has set the tag itself, and
\* main.py has none
tag_bids(s, cat, records) ==
    IF s \in {"final", "official", "replit"}
    THEN [i \in DOMAIN records |-> [records[i] EXCEPT !.category = cat]]
    ELSE records

CollectCategory(resp, tick) ==
    /\ pc = "collect"
    /\ LET cat == Categories(script)[idx]
           parsed == collect_bids_by_category(
                        script,
                        IF script \in {"correct", "db"} THEN cat ELSE NoCategory,
                        resp)
           tagged == tag_bids(script, cat, parsed.bid_data)
       IN  /\ response' = resp
           /\ bids' = tagged
           /\ IF script = "db"
              THEN /\ db' = insert_all(db, tagged, Now(db, tick))
                   /\ UNCHANGED all_bids
              ELSE /\ all_bids' = all_bids \o tagged
                   /\ UNCHANGED db
           /\ log' = Append(log, [category |-> cat,
                                  failed |-> parsed.failed,
                                  received |-> Len(resp.items),
                                  kept |-> Len(tagged),
                                  excluded |-> parsed.excluded_count,
                                  errors |-> parsed.errors])
           /\ idx' = idx + 1
           /\ pc' = NextPc(parsed.failed)
    /\ UNCHANGED <<script, api_key, df, duplicate_count, sink, demo_used,
                   elem, text>>

\* the end of collect_all_bids: nothing collected -> empty DataFrame
\* (g2b_correct_api: the demo data); otherwise the dedupe step.  The locals
\* of the category loop (response, bids) end with it.
Aggregate ==
    /\ pc = "aggregate"
    /\ IF script \in {"db", "browser"}
       THEN /\ df' = all_bids
            /\ UNCHANGED <<duplicate_count, demo_used>>
       ELSE IF all_bids = <<>>
       THEN /\ df' = IF script = "correct" THEN create_demo_data(script) ELSE <<>>
            /\ demo_used' = (script = "correct")
            /\ UNCHANGED duplicate_count
       ELSE /\ df' = drop_duplicates(all_bids)
            /\ duplicate_count' = Len(all_bids) - Len(drop_duplicates(all_bids))
            /\ UNCHANGED demo_used
    /\ pc' = "fallback"
    /\ response' = NoResponse
    /\ bids' = <<>>
    /\ UNCHANGED <<script, api_key, idx, all_bids, log, db, sink, elem, text>>

\* a fallback that also replaces a result of fewer than two records
NeedsDemoSmall == IF script = "db" THEN TotalCollected = 0 ELSE Len(df) < 2

\* a run without fallback
NeedsDemoNever == FALSE

\* if df.empty (if df is None or df.empty; if total_collected == 0)
NeedsDemo == IF script = "db" THEN TotalCollected = 0 ELSE df = <<>>

\* main() after the collection: the demo data when nothing was collected;
\* g2b_official_api returns without output instead
Fallback(tick) ==
    /\ pc = "fallback"
    /\ IF ~NeedsDemo
       THEN /\ pc' = "save"
            /\ UNCHANGED <<df, db, demo_used>>
       ELSE IF script = "official"
       THEN /\ pc' = "done"
            /\ UNCHANGED <<df, db, demo_used>>
       ELSE /\ pc' = "save"
            /\ demo_used' = TRUE
            /\ IF script = "db"
               THEN /\ db' = insert_all(db, create_demo_data(script),
                                         Now(db, tick))
                    /\ UNCHANGED df
               ELSE /\ df' = create_demo_data(script)
                    /\ UNCHANGED db
    /\ UNCHANGED <<script, api_key, idx, response, bids, all_bids,
                   duplicate_count, log, sink, elem, text>>

\* a run that writes what it has collected so far after every category
SaveEarly ==
    /\ pc \in {"collect", "save"}
    /\ sink' = IF script = "db" THEN export_to_csv(db)
               ELSE IF pc = "save" THEN df ELSE all_bids
    /\ sink' # sink
    /\ pc' = IF pc = "save" THEN "done" ELSE pc
    /\ UNCHANGED <<script, api_key, idx, response, bids, all_bids, df,
                   duplicate_count, log, db, demo_used, elem, text>>

\* save_results(df): df.to_csv; g2b_db_solution: export_to_csv of the store
Save ==
    /\ pc = "save"
    /\ sink' = IF script = "db" THEN export_to_csv(db) ELSE df
    /\ pc' = "done"
    /\ UNCHANGED <<script, api_key, idx, response, bids, all_bids, df,
                   duplicate_count, log, db, demo_used, elem, text>>

\* the scripts whose main() ends with sys.exit(1) in its handler of
\* Exception; g2b_correct_api and g2b_db_solution print the traceback and
\* return
ExitsOnError(s) == s \in {"final", "official", "replit", "browser"}

\* an exception that no handler of the pipeline expects is raised after the
\* category loop (building the DataFrame, the dedupe step, creating the
\* output directory, writing the file) and reaches the handler of main()
Crash ==
    /\ pc \in {"aggregate", "fallback", "save"}
    /\ pc' = IF ExitsOnError(script) THEN "failed" ELSE "caught"
    /\ UNCHANGED <<script, api_key, idx, response, bids, all_bids, df,
                   duplicate_count, log, db, sink, demo_used, elem, text>>

\* the exit status of the process
ExitStatus == IF pc = "failed" THEN 1 ELSE 0

Next ==
    \/ Main
    \/ \E resp \in Responses(script, MaxItems - Received), tick \in Ticks(script) :
            CollectCategory(resp, tick)
    \/ Aggregate
    \/ \E tick \in Ticks(script) : Fallback(tick)
    \/ Save
    \/ Crash

Spec == Init /\ [][Next]_vars

(***************************************************************************)
(* get_text alone, on every element text up to MaxTextLen characters.      *)
(***************************************************************************)
Chars == {SP, NL, "A", "B"}

RawElems == {NoElem} \cup { Elem(t) : t \in SeqUpTo(Chars, MaxTextLen) }

InitText ==
    /\ script = "final"
    /\ pc = "text"
    /\ api_key = TRUE
    /\ idx = 1
    /\ response = NoResponse
    /\ bids = <<>>
    /\ all_bids = <<>>
    /\ df = <<>>
    /\ duplicate_count = 0
    /\ log = <<>>
    /\ db = <<>>
    /\ sink = <<>>
    /\ demo_used = FALSE
    /\ elem \in RawElems
    /\ text = <<>>

\* text = get_text(tag_name) for the element found under the tag
GetText ==
    /\ pc = "text"
    /\ text' = get_text(elem)
    /\ pc' = "text_done"
    /\ UNCHANGED <<script, api_key, idx, response, bids, all_bids, df,
                   duplicate_count, log, db, sink, demo_used, elem>>

NextText == GetText

SpecText == InitText /\ [][NextText]_vars

(***************************************************************************)
(* The statistics a run prints after it saved its result.                  *)
(***************************************************************************)
\* a value_counts that counts every value once
value_counts_once(rows, column) ==
    [v \in { rows[i][column] : i \in DOMAIN rows } |-> 1]

\* df[column].value_counts(): the number of rows for each value of the column
value_counts(rows, column) ==
    [v \in { rows[i][column] : i \in DOMAIN rows } |->
        Cardinality({ i \in DOMAIN rows : rows[i][column] = v })]

\* the scripts whose statistics break the result down by category
\* ('입찰분류', '분류', category of the store)
PrintsCategoryStats(s) == s \in {"final", "official", "replit", "correct", "db"}

\* the scripts whose statistics break the result down by contract method
PrintsContractStats(s) ==
    s \in {"final", "official", "replit", "correct", "browser"}

\* print_detailed_stats(df) (print_stats, print_statistics, get_statistics):
\* the figures printed: the number of rows, the rows per category, the rows
\* per contract method.  <<>> stands for a breakdown that is not printed.
print_detailed_stats(s, rows) ==
    [total |-> Len(rows),
     category_stats |-> IF PrintsCategoryStats(s)
                        THEN value_counts(rows, "category") ELSE <<>>,
     contract_stats |-> IF PrintsContractStats(s)
                        THEN value_counts(rows, "contract_method") ELSE <<>>]

\* the statistics of the run: of the DataFrame that was saved, of the store
Statistics ==
    print_detailed_stats(script, IF script = "db" THEN db ELSE df)

(***************************************************************************)
(* The item loop of a script alone, on every batch of up to MaxBatch raw   *)
(* items: the six scripts above, method_1_public_api of                    *)
(* g2b_complete_solution.py and collect_bids_via_api of g2b_api_version.py.*)
(***************************************************************************)
BatchScripts == Scripts \cup {"complete", "api_version"}

\* the raw items the source of a script can deliver
BatchItems(s) == IF s = "browser" THEN RawRows ELSE RawItems

\* the item loop of script s on a batch that was received whole
parse_batch(s, items) ==
    IF s = "complete" THEN method_1_public_api(items)
    ELSE IF s = "api_version" THEN collect_bids_via_api(items)
    ELSE collect_bids_by_category(
            s, NoCategory, [outcome |-> "ok", requests |-> 1, items |-> items])

InitBatch ==
    /\ script \in BatchScripts
    /\ pc = "batch"
    /\ api_key = TRUE
    /\ idx = 1
    /\ response \in { [outcome |-> "ok", requests |-> 1, items |-> items] :
                        items \in SeqUpTo(BatchItems(script), MaxBatch) }
    /\ bids = <<>>
    /\ all_bids = <<>>
    /\ df = <<>>
    /\ duplicate_count = 0
    /\ log = <<>>
    /\ db = <<>>
    /\ sink = <<>>
    /\ demo_used = FALSE
    /\ elem = NoElem
    /\ text = <<>>

\* the item loop runs over the items of the response
ParseBatch ==
    /\ pc = "batch"
    /\ LET parsed == parse_batch(script, response.items)
       IN  /\ bids' = parsed.bid_data
           /\ log' = <<[category |-> NoCategory,
                        failed |-> parsed.failed,
                        received |-> Len(response.items),
                        kept |-> Len(parsed.bid_data),
                        excluded |-> parsed.excluded_count,
                        errors |-> parsed.errors]>>
    /\ pc' = "batch_done"
    /\ UNCHANGED <<script, api_key, idx, response, all_bids, df,
                   duplicate_count, db, sink, demo_used, elem, text>>

\* the announcement number an item normalizes to
ItemKey(s, item) == ItemRecord(s, NoCategory, item).bid_number

\* a dedupe step that runs on the raw items, before the filter: the first
\* item of every announcement number goes through the item loop
DedupeBatchFirst ==
    /\ pc = "batch_done"
    /\ Dedupes(script)
    /\ bids # <<>>
    /\ LET items == response.items
           First(i) == \A j \in 1..(i - 1) :
                          ItemKey(script, items[j]) # ItemKey(script, items[i])
           F[k \in 0..Len(items)] ==
               IF k = 0 THEN <<>>
               ELSE IF First(k) THEN Append(F[k - 1], items[k]) ELSE F[k - 1]
           firsts == parse_batch(script, F[Len(items)]).bid_data
       IN  /\ all_bids' = bids
           /\ df' = firsts
           /\ duplicate_count' = Len(bids) - Len(firsts)
    /\ pc' = "batch_deduped"
    /\ UNCHANGED <<script, api_key, idx, response, bids, log, db, sink,
                   demo_used, elem, text>>

\* collect_all_bids on the records of the batch: all_bids.extend(bids), then
\* the dedupe step (reached only with records: if not all_bids: return)
DedupeBatch ==
    /\ pc = "batch_done"
    /\ Dedupes(script)
    /\ bids # <<>>
    /\ all_bids' = bids
    /\ df' = drop_duplicates(bids)
    /\ duplicate_count' = Len(bids) - Len(drop_duplicates(bids))
    /\ pc' = "batch_deduped"
    /\ UNCHANGED <<script, api_key, idx, response, bids, log, db, sink,
                   demo_used, elem, text>>

\* save_results(df) on the deduplicated records of the batch
SaveBatch ==
    /\ pc = "batch_deduped"
    /\ sink' = df
    /\ pc' = "batch_saved"
    /\ UNCHANGED <<script, api_key, idx, response, bids, all_bids, df,
                   duplicate_count, log, db, demo_used, elem, text>>

NextBatch == ParseBatch \/ DedupeBatch \/ SaveBatch

SpecBatch == InitBatch /\ [][NextBatch]_vars

(***************************************************************************)
(* The durable store alone: any sequence of up to MaxInserts insert_bid    *)
(* calls on the table bids.  all_bids holds the records submitted so far,  *)
(* in the order of the calls.                                              *)
(***************************************************************************)
\* the records submitted: two titles for each of three bid numbers
StoreBids ==
    { DemoBid(no, name, GENERAL, DETAIL_URL \o no, "mulpum",
              CollectionMethod("db")) :
        no \in {TextA, TextB, PLACEHOLDER}, name \in {Title1, Title2} }

InitStore ==
    /\ script = "db"
    /\ pc = "store"
    /\ api_key = TRUE
    /\ idx = 1
    /\ response = NoResponse
    /\ bids = <<>>
    /\ all_bids = <<>>
    /\ df = <<>>
    /\ duplicate_count = 0
    /\ log = <<>>
    /\ db = <<>>
    /\ sink = <<>>
    /\ demo_used = FALSE
    /\ elem = NoElem
    /\ text = <<>>

\* self.db.insert_bid(bid_data),  tick  seconds after the newest row
InsertBid(bid, tick) ==
    /\ pc = "store"
    /\ Len(all_bids) < MaxInserts
    /\ db' = insert_bid(db, bid, Now(db, tick))
    /\ all_bids' = Append(all_bids, bid)
    /\ UNCHANGED <<script, pc, api_key, idx, response, bids, df,
                   duplicate_count, log, sink, demo_used, elem, text>>

NextStore == \E bid \in StoreBids, tick \in Ticks(script) : InsertBid(bid, tick)

SpecStore == InitStore /\ [][NextStore]_vars

(***************************************************************************)
(* The dedupe step of collect_all_bids alone, on every aggregate of up to  *)
(* MaxRows records, and once more on its own output.                       *)
(***************************************************************************)
\* the records of an aggregate: two titles and two categories for each of
\* three announcement numbers
DedupeRows ==
    { DemoBid(no, name, GENERAL, DETAIL_URL \o no, cat,
              CollectionMethod("final")) :
        no \in {TextA, TextB, PLACEHOLDER}, name \in {Title1, Title2},
        cat \in {category_names.goods, category_names.service} }

InitDedupe ==
    /\ script = "final"
    /\ pc = "dedupe"
    /\ api_key = TRUE
    /\ idx = 1
    /\ response = NoResponse
    /\ bids = <<>>
    /\ all_bids \in SeqUpTo(DedupeRows, MaxRows) \ {<<>>}
    /\ df = <<>>
    /\ duplicate_count = 0
    /\ log = <<>>
    /\ db = <<>>
    /\ sink = <<>>
    /\ demo_used = FALSE
    /\ elem = NoElem
    /\ text = <<>>

\* df = pd.DataFrame(all_bids); initial_count = len(df);
\* df = df.drop_duplicates(subset=['공고번호'], keep='first');
\* duplicate_count = initial_count - len(df)
DropDuplicates ==
    /\ pc = "dedupe"
    /\ df' = drop_duplicates(all_bids)
    /\ duplicate_count' = Len(all_bids) - Len(drop_duplicates(all_bids))
    /\ pc' = "deduped"
    /\ UNCHANGED <<script, api_key, idx, response, bids, all_bids, log, db,
                   sink, demo_used, elem, text>>

\* the same step applied to its own output
DropDuplicatesAgain ==
    /\ pc = "deduped"
    /\ df' = drop_duplicates(df)
    /\ duplicate_count' = Len(df) - Len(drop_duplicates(df))
    /\ pc' = "deduped_again"
    /\ UNCHANGED <<script, api_key, idx, response, bids, all_bids, log, db,
                   sink, demo_used, elem, text>>

NextDedupe == DropDuplicates \/ DropDuplicatesAgain

SpecDedupe == InitDedupe /\ [][NextDedupe]_vars

(***************************************************************************)
(* main() of g2b_complete_solution: the public API, then the browser, then *)
(* the demo data.                                                          *)
(***************************************************************************)
\* the header row of the result table: number, name, agency, date, method
TableColumns == 5

\* create_bid_info_from_row(headers, cell_texts) under that header row, with
\* the '수집방법' extract_table_data adds; a column the row does not have
\* keeps its default
table_row_info(row) ==
    LET cell_texts == [i \in DOMAIN row.cells |-> strip(row.cells[i])]
    IN  [bid_number |-> cell_texts[1],
         title |-> cell_texts[2],
         contract_method |-> IF Len(cell_texts) >= TableColumns
                             THEN cell_texts[TableColumns] ELSE PLACEHOLDER,
         link_url |-> DETAIL_URL \o cell_texts[1],
         category |-> NoCategory,
         collection_method |-> "Browser Automation"]

\* extract_table_data: rows of fewer than three cells and rows that raise
\* are passed over, negotiated contracts are filtered out
extract_table_data(rows) ==
    LET F[k \in 0..Len(rows)] ==
            IF k = 0 THEN <<>>
            ELSE IF \/ rows[k].raises
                    \/ Len(rows[k].cells) < 3
                    \/ IsNegotiated(table_row_info(rows[k]).contract_method)
                 THEN F[k - 1]
                 ELSE Append(F[k - 1], table_row_info(rows[k]))
    IN  F[Len(rows)]

\* method_1_public_api(): None (here: no records) without an API key, on a
\* failed request, on a declared error and on an exception
method_1(key, resp) ==
    IF ~key \/ Outcome(resp) \in SkipsBatch("complete") THEN <<>>
    ELSE method_1_public_api(resp.items).bid_data

\* method_2_browser_automation(): None without selenium or without data
method_2_browser_automation(available, rows) ==
    IF available THEN extract_table_data(rows) ELSE <<>>

\* method_3_demo_data(): the fixed sample rows
method_3_demo_data ==
    << DemoBid(<<"20250704-", "DEMO-", "001">>, <<"[demo]", "1">>, GENERAL,
               HOME_URL, NoCategory, "Demo Data"),
       DemoBid(<<"20250704-", "DEMO-", "002">>, <<"[demo]", "2">>, LIMITED,
               HOME_URL, NoCategory, "Demo Data") >>

InitComplete ==
    /\ script = "complete"
    /\ pc = "method_1"
    /\ api_key \in BOOLEAN
    /\ idx = 1
    /\ response = NoResponse
    /\ bids = <<>>
    /\ all_bids = <<>>
    /\ df = <<>>
    /\ duplicate_count = 0
    /\ log = <<>>
    /\ db = <<>>
    /\ sink = <<>>
    /\ demo_used = FALSE
    /\ elem = NoElem
    /\ text = <<>>

\* a main() that goes on to the next method for additional data
NeedsNextMethodAlways == TRUE

\* if not collected_data:
NeedsNextMethod == all_bids = <<>>

\* api_data = method_1_public_api(); appended if not None and not empty
Method1(resp) ==
    /\ pc = "method_1"
    /\ response' = resp
    /\ bids' = method_1(api_key, resp)
    /\ all_bids' = all_bids \o method_1(api_key, resp)
    /\ log' = Append(log, [method |-> "Public API",
                           records |-> Len(method_1(api_key, resp))])
    /\ pc' = "method_2"
    /\ UNCHANGED <<script, api_key, idx, df, duplicate_count, db, sink,
                   demo_used, elem, text>>

\* if not collected_data: browser_data = method_2_browser_automation()
Method2(available, rows) ==
    /\ pc = "method_2"
    /\ IF NeedsNextMethod
       THEN /\ bids' = method_2_browser_automation(available, rows)
            /\ all_bids' = all_bids \o bids'
            /\ log' = Append(log, [method |-> "Browser Automation",
                                   records |-> Len(bids')])
       ELSE UNCHANGED <<bids, all_bids, log>>
    /\ pc' = "method_3"
    /\ UNCHANGED <<script, api_key, idx, response, df, duplicate_count, db,
                   sink, demo_used, elem, text>>

\* if not collected_data: demo_data = method_3_demo_data()
Method3 ==
    /\ pc = "method_3"
    /\ IF NeedsNextMethod
       THEN /\ bids' = method_3_demo_data
            /\ all_bids' = all_bids \o bids'
            /\ log' = Append(log, [method |-> "Demo Data",
                                   records |-> Len(bids')])
            /\ demo_used' = TRUE
       ELSE UNCHANGED <<bids, all_bids, log, demo_used>>
    /\ pc' = "combine"
    /\ UNCHANGED <<script, api_key, idx, response, df, duplicate_count, db,
                   sink, elem, text>>

\* pd.concat(collected_data); drop_duplicates(subset=['공고번호'],
\* keep='first'); final_df.to_csv
Combine ==
    /\ pc = "combine"
    /\ df' = drop_duplicates(all_bids)
    /\ duplicate_count' = Len(all_bids) - Len(drop_duplicates(all_bids))
    /\ sink' = drop_duplicates(all_bids)
    /\ pc' = "done"
    /\ UNCHANGED <<script, api_key, idx, response, bids, all_bids, log, db,
                   demo_used, elem, text>>

NextComplete ==
    \/ \E resp \in (IF api_key THEN Responses("complete", MaxItems)
                     ELSE {NoResponse}) : Method1(resp)
    \/ \E available \in BOOLEAN, rows \in SeqUpTo(RawRows, MaxItems) :
          Method2(available, rows)
    \/ Method3
    \/ Combine

SpecComplete == InitComplete /\ [][NextComplete]_vars

(***************************************************************************)
(* A run of g2b_db_solution on the database file an earlier run left: the  *)
(* tables are created only if they do not exist, so the rows stay.         *)
(***************************************************************************)
\* what an earlier run can leave in the store: nothing, the demo rows of a
\* run that collected nothing, or the row of a collected announcement
PriorStores ==
    { <<>>,
      insert_all(<<>>, create_demo_data("db"), 0),
      insert_all(<<>>,
                 <<bid_info("db", Categories("db")[1],
                            Item(Elem(TextA), Elem(GENERAL), Elem(Title1)))>>,
                 0) }

InitRuns ==
    /\ script = "db"
    /\ pc = "start"
    /\ api_key = TRUE
    /\ idx = 1
    /\ response = NoResponse
    /\ bids = <<>>
    /\ all_bids = <<>>
    /\ df = <<>>
    /\ duplicate_count = 0
    /\ log = <<>>
    /\ db \in PriorStores
    /\ sink = <<>>
    /\ demo_used = FALSE
    /\ elem = NoElem
    /\ text = <<>>

SpecRuns == InitRuns /\ [][Next]_vars

(***************************************************************************)
(* Properties.                                                             *)
(***************************************************************************)
\* the dedupe step of collect_all_bids has run on a non-empty aggregate
Deduped ==
    /\ Dedupes(script)
    /\ pc \in {"fallback", "save", "done"}
    /\ all_bids # <<>>

\* the item loop has run on the response of the category attempted last
BatchProcessed ==
    /\ pc \in {"collect", "aggregate"}
    /\ log # <<>>
    /\ ~log[Len(log)].failed

\* no category yielded a record that survived the filter
NothingCollected ==
    IF script = "db" THEN TotalCollected = 0 ELSE all_bids = <<>>

\* every configured category has been attempted, in the configured order
AllAttempted ==
    /\ Len(log) = Len(Categories(script))
    /\ \A i \in DOMAIN log : log[i].category = Categories(script)[i]

\* the contract method the normalizer reads from a raw item
RawMethod(item) ==
    IF script = "browser" THEN strip(item.cells[5])
    ELSE get_text(item.cntrctCnclsMthdNm)

\* the raw items of the last response that reach the filter: no exception,
\* and a table row has the cells the loop asks for
Filtered ==
    { i \in DOMAIN response.items :
        /\ ~response.items[i].raises
        /\ script = "browser" => Len(response.items[i].cells) >= MinCells }

\* the table rows of the last response that the loop passes over for having
\* too few cells
ShortRows ==
    { i \in DOMAIN response.items :
        /\ script = "browser"
        /\ ~response.items[i].raises
        /\ Len(response.items[i].cells) < MinCells }

\* C1: the dedupe step of collect_all_bids returns no two records with the
\* same announcement number, one record for every announcement number of
\* its input, and at most as many records as the batches hold together.
C1_DedupeUnique ==
    Deduped =>
        /\ \A i, j \in DOMAIN df :
              i # j => df[i].bid_number # df[j].bid_number
        /\ { df[i].bid_number : i \in DOMAIN df }
              = { all_bids[i].bid_number : i \in DOMAIN all_bids }
        /\ Len(df) <= TotalCollected

C1_Witness ==
    /\ Deduped
    /\ pc = "done"
    /\ Len(all_bids) = 2
    /\ all_bids[1].bid_number = all_bids[2].bid_number
    /\ Len(sink) = 1

C4_IdNeverEmpty ==
    pc = "done" => \A i \in DOMAIN sink : sink[i].bid_number # <<>>

\* C5: get_text never yields the empty string: it yields the placeholder
\* when the element is absent or has no text, the source text otherwise.
C5_PlaceholderOrText ==
    pc = "text_done" =>
        /\ text # <<>>
        /\ text = IF elem.present /\ elem.text # <<>>
                  THEN elem.text ELSE PLACEHOLDER

C10_FailureNeverAborts ==
    /\ (api_key /\ pc = "collect") =>
          /\ Len(log) = idx - 1
          /\ idx <= Len(Categories(script))
          /\ \A i \in DOMAIN log : log[i].category = Categories(script)[i]
    /\ (api_key /\ pc \in {"aggregate", "fallback", "save", "done"}) =>
          AllAttempted

C10_Witness ==
    /\ pc = "done"
    /\ AllAttempted
    /\ Len(log) = 4
    /\ log[1].failed
    /\ log[3].failed
    /\ ~log[4].failed
    /\ log[4].kept = 2

\* the category loop has just handled a response that is no usable batch:
\* the call failed, or the response declares an error (resultCode not '00')
CategoryFailed ==
    /\ pc \in {"collect", "aggregate"}
    /\ response.outcome \in TransportFail \cup BrowserFail \cup {"declared"}

\* C11: a category whose adapter call fails, or whose response declares an
\* error, contributes zero records even when the response carries items: the
\* step that handles it leaves the accumulated result set and the durable
\* store as they were, and its batch is empty.
C11_FailedCategoryAddsNothing ==
    [][ (pc = "collect"
            /\ response'.outcome
                  \in TransportFail \cup BrowserFail \cup {"declared"})
        => /\ bids' = <<>>
           /\ all_bids' = all_bids
           /\ db' = db
           /\ log'[Len(log')].kept = 0
           /\ SubSeq(log', 1, Len(log)) = log ]_vars

C11_Witness ==
    /\ CategoryFailed
    /\ response.outcome = "declared"
    /\ response.items # <<>>
    /\ \E i \in DOMAIN response.items :
          ItemFate(script, response.items[i]) = "kept"
    /\ log[Len(log)].failed
    /\ Len(all_bids) = 1
    /\ bids = <<>>

\* the items of the batch that can be normalized, in order
Normalizable ==
    LET NotRaising(item) == ~item.raises
    IN  SelectSeq(response.items, NotRaising)

\* C12: a raw item that cannot be normalized is skipped alone: the batch
\* result is what the loop returns for the same batch without that item,
\* and the batch is not discarded.
C12_ItemSkippedAlone ==
    pc = "batch_done" =>
        /\ ~log[1].failed
        /\ bids = parse_batch(script, Normalizable).bid_data
        /\ log[1].excluded = parse_batch(script, Normalizable).excluded_count

\* goods, service, construction, foreign
FixedOrder == <<"mulpum", "yongyeok", "gongsa", "oeja">>

\* the output of the run on the same batches in which no second passes
\* between two inserts: the batches in processing order, deduplicated
\* (g2b_db_solution: the rows of the store in the order of their id)
ReferenceOutput ==
    IF ~api_key THEN create_demo_data(script)
    ELSE IF script = "db" THEN [i \in DOMAIN db |-> ExportedRow(db[i])]
    ELSE IF all_bids = <<>>
    THEN (IF script = "official" THEN <<>> ELSE create_demo_data(script))
    ELSE IF Dedupes(script) THEN drop_duplicates(all_bids) ELSE all_bids

\* C13: the categories are processed in the fixed order goods, service,
\* construction, foreign in every run, and the final output of a run is
\* determined by its batches: it equals the output of every other run on the
\* same batches in the same order (same records, same order, same fields).
C13_Deterministic ==
    /\ script # "browser" =>
          \A i \in DOMAIN log : log[i].category = FixedOrder[i]
    /\ pc = "done" => sink = ReferenceOutput

RECURSIVE SumOver(_, _)
\* the sum of the counts f[x] for x in S
SumOver(f, S) ==
    IF S = {} THEN 0
    ELSE LET x == CHOOSE y \in S : TRUE
         IN  f[x] + SumOver(f, S \ {x})

\* the records the filter dropped, over all categories of the run
TotalExcluded ==
    LET F[k \in 0..Len(log)] ==
            IF k = 0 THEN 0 ELSE F[k - 1] + log[k].excluded
    IN  F[Len(log)]

\* the run has saved its result and printed its statistics
Reported == pc = "done" /\ sink # <<>>

\* C14: at the end of a run the statistics hold a total of excluded
\* negotiated-contract records, equal to the sum of the records the filter
\* dropped in each category of the run.
C14_TotalExcluded ==
    (Reported /\ ReportsExcluded(script)) =>
        /\ "total_excluded" \in DOMAIN Statistics
        /\ Statistics.total_excluded = TotalExcluded

LastSubmission(no) ==
    CHOOSE k \in DOMAIN all_bids :
        /\ all_bids[k].bid_number = no
        /\ \A j \in DOMAIN all_bids :
              all_bids[j].bid_number = no => j <= k

StartsWith(prefix, s) ==
    Len(s) >= Len(prefix) /\ SubSeq(s, 1, Len(prefix)) = prefix

\* 'DEMO-'
DEMO_PREFIX == <<"DEMO-">>

\* C17: every record of the demo dataset a run falls back to has an
\* announcement number that is non-empty, differs from the placeholder, is
\* unique within the dataset and begins with the prefix 'DEMO-'.
C17_DemoIdsWellFormed ==
    demo_used =>
        LET demo == create_demo_data(script)
        IN  /\ demo # <<>>
            /\ \A i \in DOMAIN demo :
                  /\ demo[i].bid_number # <<>>
                  /\ demo[i].bid_number # PLACEHOLDER
                  /\ StartsWith(DEMO_PREFIX, demo[i].bid_number)
            /\ \A i, j \in DOMAIN demo :
                  i # j => demo[i].bid_number # demo[j].bid_number

\* the category loop has handled at least one category
CategoryHandled == pc \in {"collect", "aggregate"} /\ log # <<>>

Aggregated == IF Dedupes(script) THEN drop_duplicates(all_bids) ELSE all_bids

C20_ExitStatus ==
    /\ pc = "done" => ExitStatus = 0
    /\ pc \in {"failed", "caught"} => ExitStatus # 0

\* the raw item carries a negotiated contract method under one of the field
\* names of the source schemas
NegotiatedUnderAnyName(item) ==
    \/ IsNegotiated(get_text(item.cntrctMthd))
    \/ IsNegotiated(get_text(item.cntrctCnclsMthdNm))

\* C21: the contract method is recognised under every source naming
\* convention: whichever script processes the batch, an item that carries a
\* negotiated contract method under cntrctMthd or under cntrctCnclsMthdNm is
\* dropped, so the batch result holds at most the items that carry none.
C21_EveryNamingConvention ==
    (pc = "batch_done" /\ script # "browser") =>
        /\ Len(bids) <= Cardinality({ i \in DOMAIN response.items :
                            /\ ~response.items[i].raises
                            /\ ~NegotiatedUnderAnyName(response.items[i]) })
        /\ \A j \in DOMAIN bids : ~IsNegotiated(bids[j].contract_method)

\* C22: in the final output of a run, demo records included, the detail
\* link of every record is the fixed base URL
\* 'https://www.g2b.go.kr/pt/menu/selectSubFrame.do?bidNtceNo=' followed by
\* the announcement number of that record.
C22_DetailLink ==
    pc = "done" =>
        \A i \in DOMAIN sink :
            sink[i].link_url = DETAIL_URL \o sink[i].bid_number

\* C23: deduplication is idempotent: the dedupe step applied to its own
\* output returns the same records in the same order and reports zero
\* duplicates removed.
C23_DedupeIdempotent ==
    [][ pc = "deduped" => (df' = df /\ duplicate_count' = 0) ]_vars

C23_Witness ==
    /\ pc = "deduped_again"
    /\ Len(all_bids) = 3
    /\ Len(df) = 1
    /\ duplicate_count = 0

\* C24: insert_bid checks for duplicates: it returns False when a row with
\* the same bid_number is already stored, so the count of new announcements
\* collect_from_g2b_api reports is the number of bid_numbers that were not
\* in the store before (the store of a run starts empty, so: the number of
\* rows the store holds once the categories are done).
C24_CountsOnlyNew ==
    (script = "db" /\ ~demo_used) => TotalCollected = Len(db)

\* the items of the batch that are filtered out as negotiated contracts and
\* followed by an item of the same announcement number that passes the
\* filter and is the first of its number to do so
SuppressedThenKept ==
    LET items == response.items
    IN  { j \in DOMAIN items :
            /\ ItemFate(script, items[j]) = "kept"
            /\ \E i \in 1..(j - 1) :
                  /\ ItemFate(script, items[i]) = "excluded"
                  /\ ItemKey(script, items[i]) = ItemKey(script, items[j])
            /\ \A k \in 1..(j - 1) :
                  ItemFate(script, items[k]) = "kept"
                      => ItemKey(script, items[k]) # ItemKey(script, items[j]) }

\* C25: filtering precedes deduplication, so a negotiated-contract record
\* that is dropped never suppresses a later record with the same
\* announcement number: an item that follows an excluded item of its number
\* and passes the filter has its record in the final output.
C25_FilterBeforeDedupe ==
    pc = "batch_saved" =>
        \A j \in SuppressedThenKept :
            \E r \in DOMAIN sink :
                sink[r] = ItemRecord(script, NoCategory, response.items[j])

C25_Witness ==
    /\ pc = "batch_saved"
    /\ SuppressedThenKept # {}
    /\ duplicate_count > 0

\* the records of rows whose announcement number is the placeholder
Placeholders(rows) ==
    Cardinality({ i \in DOMAIN rows : rows[i].bid_number = PLACEHOLDER })

\* the element of the announcement number is absent or has no text
LacksNumber(item) ==
    item.bidNtceNo = NoElem \/ item.bidNtceNo = Elem(<<>>)

IsDemoRow(r) ==
    \E i \in DOMAIN create_demo_data("db") :
        create_demo_data("db")[i].bid_number = r.bid_number

\* C27: the durable store never holds demo records and collected records at
\* the same time, after any sequence of runs against the same database:
\* demo records are inserted only when the store holds no real record.
C27_StoreNeverMixed ==
    \A i, j \in DOMAIN db : IsDemoRow(db[i]) = IsDemoRow(db[j])

\* the records collected so far, one for each announcement number where the
\* script keeps one
Collected == IF script = "db" THEN db ELSE Aggregated

\* the configured category tags of the script
ConfiguredTags == { Categories(script)[i] : i \in DOMAIN Categories(script) }

\* a category step keeps the tag of every number collected before it and
\* gives the tag of its category to the numbers it adds
EarliestTagKept ==
    (pc = "collect" /\ idx' = idx + 1) =>
        /\ \A i \in DOMAIN Collected :
               \E j \in DOMAIN Collected' :
                   /\ Collected'[j].bid_number = Collected[i].bid_number
                   /\ Collected'[j].category = Collected[i].category
        /\ \A j \in DOMAIN Collected' :
               \/ \E i \in DOMAIN Collected :
                      Collected[i].bid_number = Collected'[j].bid_number
               \/ Collected'[j].category = Categories(script)[idx]

\* every written record has a configured tag and is a collected record
TaggedOutput ==
    (pc = "done" /\ ~demo_used) =>
        \A r \in DOMAIN sink :
            /\ sink[r].category \in ConfiguredTags
            /\ \E i \in DOMAIN Collected :
                   /\ Collected[i].bid_number = sink[r].bid_number
                   /\ Collected[i].category = sink[r].category

TagsInMemory(s) == s \in {"final", "official", "replit", "correct"}

\* the store gives every number of the batch the tag of the batch's category
LatestTagStored ==
    (script = "db" /\ pc = "collect" /\ idx' = idx + 1) =>
        \A b \in DOMAIN bids' :
            \E j \in DOMAIN db' :
                /\ db'[j].bid_number = bids'[b].bid_number
                /\ db'[j].category = Categories(script)[idx]

MethodRank(m) ==
    CASE m = "Public API" -> 1
      [] m = "Browser Automation" -> 2
      [] m = "Demo Data" -> 3

numOfRows == 100

\* the records of rows that carry the category tag c
InCategory(rows, c) ==
    Cardinality({ i \in DOMAIN rows : rows[i].category = c })

\* the items received for category c
ReceivedFor(c) ==
    LET F[k \in 0..Len(log)] ==
            IF k = 0 THEN 0
            ELSE F[k - 1] + (IF log[k].category = c THEN log[k].received ELSE 0)
    IN  F[Len(log)]

\* the output of a run holds at most numOfRows records for each category
WithinOnePage ==
    pc = "done" =>
        /\ Len(sink) <= numOfRows * Len(Categories(script))
        /\ \A c \in ConfiguredTags : InCategory(sink, c) <= numOfRows

\* a category step keeps no more records than its response holds items,
\* and the output of a run that collected records holds, for each category,
\* no more records than were received for it
WithinReceived ==
    /\ \A k \in DOMAIN log : log[k].kept <= log[k].received
    /\ (pc = "done" /\ ~demo_used) =>
           /\ Len(sink) <= Received
           /\ script # "browser" =>
                  \A c \in ConfiguredTags : InCategory(sink, c) <= ReceivedFor(c)

====
